---- MODULE Spec2Model ----
(***************************************************************************)
(* A model of eshgham (src/eshgham/__init__.py): the per-workflow health   *)
(* classification, the grouping of Results by Status, the link heuristic,  *)
(* the token lookup, and main()'s run: token, lazy generator of Results,   *)
(* and one of the two renderers.                                           *)
(*                                                                         *)
(* Python strings are TLA+ strings; startswith/endswith/split are computed *)
(* on them with Len and SubSeq.  The GitHub API is the environment: every  *)
(* call answers nondeterministically with an error or with data.           *)
(***************************************************************************)
EXTENDS Naturals, Sequences, FiniteSets, TLC

\* ------------------------------------------------------------------ bounds

\* The most (repository, workflow) pairs a configuration holds.
MaxPairs == 3
\* The longest Result list given to results_from_result_list on its own.
MaxLen == 3
\* The most scheduled runs the API lists for a workflow.
MaxRuns == 2

\* ------------------------------------------------------- Python's values

\* Python's None where a string may stand, and where a WorkflowRun may stand.
None == "<None>"
NoRun == [none |-> TRUE]
NoResult == [none |-> TRUE]

\* bool(v) of a string-or-None value.
Truthy(v) == v # None /\ v # ""

\* str.startswith, str.endswith and str.split('/')[-1].
StartsWith(s, prefix) ==
    Len(prefix) <= Len(s) /\ SubSeq(s, 1, Len(prefix)) = prefix

EndsWith(s, suffix) ==
    Len(suffix) <= Len(s) /\ SubSeq(s, Len(s) - Len(suffix) + 1, Len(s)) = suffix

\* LastSegment taking the first segment: split('/')[0].
LastSegment_first(s) ==
    LET slashes == {i \in 1..Len(s) : SubSeq(s, i, i) = "/"}
        first == CHOOSE i \in slashes : \A j \in slashes : i <= j
    IN IF slashes = {} THEN s ELSE SubSeq(s, 1, first - 1)

LastSegment(s) ==
    LET slashes == {i \in 1..Len(s) : SubSeq(s, i, i) = "/"}
        last == CHOOSE i \in slashes : \A j \in slashes : j <= i
    IN IF slashes = {} THEN s ELSE SubSeq(s, last + 1, Len(s))

\* ----------------------------------------------------------------- Status

OK == "OK"
INACTIVATED == "INACTIVATED"
FAILED == "FAILED"
Status == {OK, INACTIVATED, FAILED}

\* The enum's definition order, which is the key order of the results dict.
StatusOrder == <<OK, INACTIVATED, FAILED>>

\* Status.value: the colorama colour of the member.
StatusValue(status) ==
    CASE status = OK -> "Fore.GREEN"
      [] status = INACTIVATED -> "Fore.YELLOW"
      [] status = FAILED -> "Fore.RED"

\* ----------------------------------------------------------------- Result

Result(repo, workflow_name, status, workflow, last_scheduled_run) ==
    [repo |-> repo, workflow_name |-> workflow_name, status |-> status,
     workflow |-> workflow, last_scheduled_run |-> last_scheduled_run]

\* A property's outcome: the value returned, or the exception raised.
Returned(v) == [raised |-> None, value |-> v]
Raised(e) == [raised |-> e, value |-> None]

\* Result.output_url.  Reading .html_url of None raises AttributeError.
output_url(self) ==
    IF self.status # INACTIVATED
    THEN IF self.last_scheduled_run = NoRun
         THEN Raised("AttributeError")
         ELSE Returned(self.last_scheduled_run.html_url)
    ELSE LET html_url == self.workflow.html_url
             repo == self.repo
             start == "https://github.com/" \o repo \o "/blob"
             end == self.workflow.path
         IN IF ~(StartsWith(html_url, start) /\ EndsWith(html_url, end))
            THEN Returned("Unable to get actions URL for action at:\n  " \o html_url)
            ELSE Returned("https://github.com/" \o repo \o "/actions/workflows/"
                          \o LastSegment(end))

\* Result.output_line: the label and its colour.
output_line(self) ==
    LET text == CASE self.status = OK -> "OK"
                  [] self.status = INACTIVATED -> "INACTIVE"
                  [] self.status = FAILED -> "FAIL"
    IN [kind |-> "line", repo |-> self.repo, workflow_name |-> self.workflow_name,
        color |-> StatusValue(self.status), text |-> text]

\* ----------------------------------------------------- get_workflow_result

\* An API call as the log of a run keeps it: the call and how it was
\* answered ("ok", "error", or "empty" for a run list without runs).
GetWorkflowCall(repo, workflow_name, answer) ==
    [kind |-> "get_workflow", repo |-> repo, workflow_name |-> workflow_name,
     answer |-> answer]
GetRunsCall(repo, workflow_name, answer) ==
    [kind |-> "get_runs", repo |-> repo, workflow_name |-> workflow_name,
     answer |-> answer]
GetRepoCall(repo_name, answer) ==
    [kind |-> "get_repo", repo |-> repo_name, workflow_name |-> None,
     answer |-> answer]

\* status of an active workflow from its newest scheduled run.
RunStatus(last_scheduled_run) ==
    IF last_scheduled_run.conclusion # "success" THEN FAILED ELSE OK

\* FirstRun taking the oldest run of the list.
FirstRun_oldest(runs) == runs[Len(runs)]

\* next(iter(runs)): the first of the list.
FirstRun(runs) == Head(runs)

\* get_workflow_result giving a FAILED Result, without a run, for an active
\* workflow that has no scheduled run.
get_workflow_result_tolerant(repo, workflow_name, wr, rr) ==
    LET gw == GetWorkflowCall(repo, workflow_name, IF wr.ok THEN "ok" ELSE "error")
        gr == GetRunsCall(repo, workflow_name,
                          IF ~rr.ok THEN "error"
                          ELSE IF rr.runs = <<>> THEN "empty" ELSE "ok")
    IN IF ~wr.ok
       THEN [raised |-> "GithubException", calls |-> <<gw>>, result |-> NoResult]
       ELSE IF wr.workflow.state # "active"
       THEN [raised |-> None, calls |-> <<gw>>,
             result |-> Result(repo, workflow_name, INACTIVATED, wr.workflow, NoRun)]
       ELSE IF ~rr.ok
       THEN [raised |-> "GithubException", calls |-> <<gw, gr>>, result |-> NoResult]
       ELSE IF rr.runs = <<>>
       THEN [raised |-> None, calls |-> <<gw, gr>>,
             result |-> Result(repo, workflow_name, FAILED, wr.workflow, NoRun)]
       ELSE [raised |-> None, calls |-> <<gw, gr>>,
             result |-> Result(repo, workflow_name, RunStatus(FirstRun(rr.runs)),
                               wr.workflow, FirstRun(rr.runs))]

\* get_workflow_result(repo, workflow_name) against the API's two answers:
\* wr to repo.get_workflow, rr to workflow.get_runs(event='schedule').  The
\* outcome holds the calls made, in order, and the Result or the exception.
get_workflow_result(repo, workflow_name, wr, rr) ==
    LET gw == GetWorkflowCall(repo, workflow_name, IF wr.ok THEN "ok" ELSE "error")
        gr == GetRunsCall(repo, workflow_name,
                          IF ~rr.ok THEN "error"
                          ELSE IF rr.runs = <<>> THEN "empty" ELSE "ok")
    IN IF ~wr.ok
       THEN [raised |-> "GithubException", calls |-> <<gw>>, result |-> NoResult]
       ELSE IF wr.workflow.state # "active"
       THEN [raised |-> None, calls |-> <<gw>>,
             result |-> Result(repo, workflow_name, INACTIVATED, wr.workflow, NoRun)]
       ELSE IF ~rr.ok
       THEN [raised |-> "GithubException", calls |-> <<gw, gr>>, result |-> NoResult]
       ELSE IF rr.runs = <<>>
       THEN [raised |-> "StopIteration", calls |-> <<gw, gr>>, result |-> NoResult]
       ELSE [raised |-> None, calls |-> <<gw, gr>>,
             result |-> Result(repo, workflow_name, RunStatus(FirstRun(rr.runs)),
                               wr.workflow, FirstRun(rr.runs))]

\* ------------------------------------------------ results_from_result_list

\* AppendEach inserting each result at the front of its group.
RECURSIVE AppendEach_front(_, _)
AppendEach_front(results, result_list) ==
    IF result_list = <<>> THEN results
    ELSE LET result == Head(result_list)
         IN AppendEach_front([results EXCEPT ![result.status] = <<result>> \o @],
                             Tail(result_list))

\* results[status].append(result), for each result in turn.
RECURSIVE AppendEach(_, _)
AppendEach(results, result_list) ==
    IF result_list = <<>> THEN results
    ELSE LET result == Head(result_list)
         IN AppendEach([results EXCEPT ![result.status] = Append(@, result)],
                       Tail(result_list))

results_from_result_list(result_list) ==
    AppendEach([s \in Status |-> <<>>], result_list)

\* --------------------------------------------------------------- get_token

\* A value of the YAML document: a scalar string or a list of strings.
YamlStr(v) == [str |-> v]
YamlList(l) == [list |-> l]

HasKey(d, k) == \E i \in 1..Len(d) : d[i].key = k
Lookup(d, k) == d[CHOOSE i \in 1..Len(d) : d[i].key = k].value
\* dict.pop(k): the dict without the key, the other keys in their order.
Pop(d, k) == SelectSeq(d, LAMBDA e : e.key # k)

\* get_token reading the dict's token without removing the key.
get_token_keeps_key(arg_token, workflow_dict, environ) ==
    LET t1 == IF HasKey(workflow_dict, "token")
              THEN Lookup(workflow_dict, "token").str ELSE None
        t2 == IF Truthy(arg_token) THEN arg_token ELSE t1
        t3 == IF ~Truthy(t2) THEN environ ELSE t2
    IN [raised |-> IF ~Truthy(t3) THEN "ValueError" ELSE None,
        token |-> IF ~Truthy(t3) THEN None ELSE t3,
        workflow_dict |-> workflow_dict]

\* get_token letting the environment's value win over the dict's.
get_token_env_first(arg_token, workflow_dict, environ) ==
    LET t1 == IF HasKey(workflow_dict, "token")
              THEN Lookup(workflow_dict, "token").str ELSE None
        d1 == IF HasKey(workflow_dict, "token")
              THEN Pop(workflow_dict, "token") ELSE workflow_dict
        t2 == IF Truthy(arg_token) THEN arg_token
              ELSE IF Truthy(environ) THEN environ ELSE t1
    IN [raised |-> IF ~Truthy(t2) THEN "ValueError" ELSE None,
        token |-> IF ~Truthy(t2) THEN None ELSE t2,
        workflow_dict |-> d1]

\* get_token without its last test: a missing token is returned as it is.
get_token_unchecked(arg_token, workflow_dict, environ) ==
    LET t1 == IF HasKey(workflow_dict, "token")
              THEN Lookup(workflow_dict, "token").str ELSE None
        d1 == IF HasKey(workflow_dict, "token")
              THEN Pop(workflow_dict, "token") ELSE workflow_dict
        t2 == IF Truthy(arg_token) THEN arg_token ELSE t1
        t3 == IF ~Truthy(t2) THEN environ ELSE t2
    IN [raised |-> None, token |-> t3, workflow_dict |-> d1]

\* get_token(arg_token, workflow_dict) with os.environ's GITHUB_TOKEN: the
\* token or the ValueError, and workflow_dict as the call leaves it.
get_token(arg_token, workflow_dict, environ) ==
    LET t1 == IF HasKey(workflow_dict, "token")
              THEN Lookup(workflow_dict, "token").str ELSE None
        d1 == IF HasKey(workflow_dict, "token")
              THEN Pop(workflow_dict, "token") ELSE workflow_dict
        t2 == IF Truthy(arg_token) THEN arg_token ELSE t1
        t3 == IF ~Truthy(t2) THEN environ ELSE t2
    IN [raised |-> IF ~Truthy(t3) THEN "ValueError" ELSE None,
        token |-> IF ~Truthy(t3) THEN None ELSE t3,
        workflow_dict |-> d1]

\* ------------------------------------------------------------- the reports

\* What a Python call gives back to main(): an int, None, or an exception.
PyInt(n) == [raised |-> None, type |-> "int", int |-> n]
PyNone == [raised |-> None, type |-> "NoneType", int |-> 0]
PyRaise(e) == [raised |-> e, type |-> "NoneType", int |-> 0]

\* `v or 0` of main().
OrZero(v) == IF v.type = "NoneType" \/ v.int = 0 THEN 0 ELSE v.int

\* report_results_summary: the counts of the summary line.
report_results_summary(results) ==
    [kind |-> "summary",
     total |-> Len(results[OK]) + Len(results[INACTIVATED]) + Len(results[FAILED]),
     passing |-> Len(results[OK]),
     inactive |-> Len(results[INACTIVATED]),
     failing |-> Len(results[FAILED])]

\* The body of output_link_to_inactive and output_link_to_error: the banner,
\* then one entry per result until an output_url raises.
RECURSIVE LinkLines(_, _)
LinkLines(kind, rs) ==
    IF rs = <<>> THEN [raised |-> None, printed |-> <<>>]
    ELSE LET url == output_url(Head(rs))
             rest == LinkLines(kind, Tail(rs))
         IN IF url.raised # None
            THEN [raised |-> url.raised, printed |-> <<>>]
            ELSE [raised |-> rest.raised,
                  printed |-> <<[kind |-> kind, repo |-> Head(rs).repo,
                                 workflow_name |-> Head(rs).workflow_name,
                                 url |-> url.value]>> \o rest.printed]

output_link_to_inactive(inactives) ==
    LET ll == LinkLines("inactive_link", inactives)
    IN [raised |-> ll.raised,
        printed |-> <<[kind |-> "banner", text |-> "LINKS TO INACTIVE WORKFLOWS"]>>
                    \o ll.printed]

output_link_to_error(failed) ==
    LET ll == LinkLines("failed_link", failed)
    IN [raised |-> ll.raised,
        printed |-> <<[kind |-> "banner", text |-> "LINKS TO FAILED RUNS"]>>
                    \o ll.printed]

\* `if failures or inactive:` of output_color.  No name `inactive` is bound
\* in the function or the module (the walrus binds `inactives`), so the test
\* raises NameError unless `failures` is truthy and short-circuits the `or`.
FailuresOrInactive(failures, inactives) ==
    IF failures # <<>> THEN [raised |-> None, value |-> TRUE]
    ELSE [raised |-> "NameError", value |-> FALSE]

\* output_color after its loop: what it prints and what it gives back.
output_color_tail(result_list) ==
    LET results == results_from_result_list(result_list)
        summary == <<report_results_summary(results)>>
        inactives == results[INACTIVATED]
        li == IF inactives # <<>> THEN output_link_to_inactive(inactives)
              ELSE [raised |-> None, printed |-> <<>>]
        failures == results[FAILED]
        lf == IF failures # <<>> THEN output_link_to_error(failures)
              ELSE [raised |-> None, printed |-> <<>>]
        test == FailuresOrInactive(failures, inactives)
    IN IF li.raised # None
       THEN [printed |-> summary \o li.printed, ret |-> PyRaise(li.raised)]
       ELSE IF lf.raised # None
       THEN [printed |-> summary \o li.printed \o lf.printed, ret |-> PyRaise(lf.raised)]
       ELSE [printed |-> summary \o li.printed \o lf.printed,
             ret |-> IF test.raised # None THEN PyRaise(test.raised)
                     ELSE IF test.value THEN PyInt(1) ELSE PyInt(0)]

\* workflow_info of each Result of a group, until an output_url raises.
RECURSIVE WorkflowInfos(_)
WorkflowInfos(rs) ==
    IF rs = <<>> THEN [raised |-> None, infos |-> <<>>]
    ELSE LET url == output_url(Head(rs))
             rest == WorkflowInfos(Tail(rs))
         IN IF url.raised # None THEN [raised |-> url.raised, infos |-> <<>>]
            ELSE [raised |-> rest.raised,
                  infos |-> <<[repo |-> Head(rs).repo,
                               workflow_name |-> Head(rs).workflow_name,
                               url |-> url.value]>> \o rest.infos]

\* output_json_tail returning 1 when a Result is not OK, as output_color
\* is meant to.
output_json_tail_signals(result_list) ==
    LET results == results_from_result_list(result_list)
        groups == [s \in Status |-> WorkflowInfos(results[s])]
    IN [printed |-> <<[kind |-> "json", doc |-> [s \in Status |-> groups[s].infos]]>>,
        ret |-> IF results[FAILED] # <<>> \/ results[INACTIVATED] # <<>>
                THEN PyInt(1) ELSE PyNone]

\* output_json after list(result_iterator): the document it prints (one
\* key per Status, by name) and what it gives back (None).
output_json_tail(result_list) ==
    LET results == results_from_result_list(result_list)
        groups == [s \in Status |-> WorkflowInfos(results[s])]
        bad == {i \in 1..Len(StatusOrder) : groups[StatusOrder[i]].raised # None}
        first == CHOOSE i \in bad : \A j \in bad : i <= j
    IN IF bad # {}
       THEN [printed |-> <<>>, ret |-> PyRaise(groups[StatusOrder[first]].raised)]
       ELSE [printed |-> <<[kind |-> "json",
                            doc |-> [s \in Status |-> groups[s].infos]]>>,
             ret |-> PyNone]

\* ------------------------------------------------- the inputs of a run

RepoNames == {"acme/app", "acme/lib"}
WorkflowNames == {"ci.yml", "nightly.yml"}

\* The sequences without repetition over S.
InjSeqs(S) ==
    UNION {{q \in [1..n -> S] : \A i, j \in 1..n : q[i] = q[j] => i = j} :
           n \in 0..Cardinality(S)}

RECURSIVE SumLen(_)
SumLen(lists) == IF lists = <<>> THEN 0 ELSE Len(Head(lists)) + SumLen(Tail(lists))

\* The repository entries of a configuration, in the file's order: owner/name
\* keys, each with its list of workflow file names.
RepoDicts ==
    UNION {{[i \in 1..Len(ks) |-> [key |-> ks[i], value |-> YamlList(ls[i])]] :
            ls \in {l \in [1..Len(ks) -> InjSeqs(WorkflowNames)] : SumLen(l) <= MaxPairs}} :
           ks \in InjSeqs(RepoNames)}

InsertAt(d, i, e) == SubSeq(d, 1, i) \o <<e>> \o SubSeq(d, i + 1, Len(d))

\* What yaml.load gives main(): the repository entries, and perhaps the
\* reserved key 'token' (with one of `tokens`) somewhere among them.
WorkflowDicts(tokens) ==
    RepoDicts \cup
    UNION {{InsertAt(d, i, [key |-> "token", value |-> YamlStr(t)]) : i \in 0..Len(d), t \in tokens} :
           d \in RepoDicts}

\* The configured (repository, workflow) pairs of a dict, in configured order.
RECURSIVE PairsOf(_)
PairsOf(d) ==
    IF d = <<>> THEN <<>>
    ELSE [j \in 1..Len(Head(d).value.list) |->
             [repo |-> Head(d).key, workflow_name |-> Head(d).value.list[j]]]
         \o PairsOf(Tail(d))

\* ------------------------------------------------- the API's answers

WorkflowPath(workflow_name) == ".github/workflows/" \o workflow_name
BlobUrl(repo, path) == "https://github.com/" \o repo \o "/blob/main/" \o path
\* The same file as an enterprise host would link it.
OtherHostUrl(repo, path) == "https://ghe.example.com/" \o repo \o "/blob/main/" \o path

Workflow(state, html_url, path) == [state |-> state, html_url |-> html_url, path |-> path]
NoWorkflow == [none |-> TRUE]

\* The answers to repo.get_workflow(workflow_name) in a run.
WorkflowResponses(repo, workflow_name) ==
    LET path == WorkflowPath(workflow_name)
    IN {[ok |-> FALSE, workflow |-> NoWorkflow]} \cup
       {[ok |-> TRUE, workflow |-> w] :
           w \in {Workflow("active", BlobUrl(repo, path), path),
                  Workflow("disabled_manually", BlobUrl(repo, path), path),
                  Workflow("disabled_manually", OtherHostUrl(repo, path), path)}}

Run(repo, age, conclusion) ==
    [conclusion |-> conclusion,
     html_url |-> "https://github.com/" \o repo \o "/actions/runs/" \o ToString(100 - age)]

\* The run lists over `conclusions`, newest first, of at most n runs.
RunLists(repo, conclusions, n) ==
    UNION {{[i \in 1..k |-> Run(repo, i, cs[i])] : cs \in [1..k -> conclusions]} :
           k \in 0..n}

\* The answers to workflow.get_runs(event='schedule') in a run.
RunsResponses(repo) ==
    {[ok |-> FALSE, runs |-> <<>>]} \cup
    {[ok |-> TRUE, runs |-> rs] : rs \in RunLists(repo, {"success", "failure"}, MaxRuns)}

\* -------------------------------------------------------------- the state

VARIABLES
    workflow_dict,  \* main's dict, from yaml.load
    arg_token,      \* args.token
    environ,        \* os.environ.get("GITHUB_TOKEN")
    runtype,        \* args.runtype
    token,          \* main's token
    pc,             \* where the run is
    items_pos,      \* the generator's place in workflow_dict.items()
    repo,           \* the generator's repo (its full_name)
    workflow_pos,   \* the generator's place in workflow_list
    result,         \* the Result just yielded
    result_list,    \* the renderer's result_list
    events,         \* the API calls made and the output printed, in order
    raised,         \* the exception that ended the run
    exit_status,    \* the process's exit status, once it has one
    fn, fn_in, fn_out  \* a function applied on its own: which, to what, giving what

vars == <<workflow_dict, arg_token, environ, runtype, token, pc, items_pos, repo,
          workflow_pos, result, result_list, events, raised, exit_status,
          fn, fn_in, fn_out>>

inputs == <<arg_token, environ, runtype>>
fnvars == <<fn, fn_in, fn_out>>

Init ==
    /\ workflow_dict \in WorkflowDicts({"A"})
    /\ arg_token \in {None, "B"}
    /\ environ \in {None, "C"}
    /\ runtype \in {"color", "json"}
    /\ token = None
    /\ pc = "get_token"
    /\ items_pos = 0
    /\ repo = None
    /\ workflow_pos = 0
    /\ result = NoResult
    /\ result_list = <<>>
    /\ events = <<>>
    /\ raised = None
    /\ exit_status = <<>>
    /\ fn = None /\ fn_in = <<>> /\ fn_out = <<>>

\* An exception nothing catches: the interpreter ends the process, status 1.
Uncaught(e) ==
    /\ pc' = "crashed"
    /\ raised' = e
    /\ exit_status' = <<1>>

\* main(): token = get_token(args.token, workflow_dict); gh = github.Github(token)
main_get_token ==
    /\ pc = "get_token"
    /\ LET r == get_token(arg_token, workflow_dict, environ)
       IN /\ workflow_dict' = r.workflow_dict
          /\ token' = r.token
          /\ IF r.raised # None
             THEN Uncaught(r.raised)
             ELSE pc' = "next" /\ UNCHANGED <<raised, exit_status>>
    /\ UNCHANGED <<inputs, items_pos, repo, workflow_pos, result, result_list, events,
                   fnvars>>

\* The generator's place: it needs the next repository, has a workflow to
\* fetch, or is exhausted.
ListDone ==
    IF items_pos = 0 THEN TRUE
    ELSE workflow_pos > Len(workflow_dict[items_pos].value.list)
NeedRepo == ListDone /\ items_pos < Len(workflow_dict)
Exhausted == ListDone /\ items_pos = Len(workflow_dict)

\* get_all_workflow_results: the outer loop's next item and gh.get_repo.
get_repo ==
    /\ pc = "next" /\ NeedRepo
    /\ LET repo_name == workflow_dict[items_pos + 1].key
       IN /\ items_pos' = items_pos + 1
          /\ \E ok \in BOOLEAN :
                /\ events' = Append(events, GetRepoCall(repo_name,
                                                        IF ok THEN "ok" ELSE "error"))
                /\ IF ok
                   THEN /\ repo' = repo_name
                        /\ workflow_pos' = 1
                        /\ UNCHANGED <<pc, raised, exit_status>>
                   ELSE /\ Uncaught("GithubException")
                        /\ UNCHANGED <<repo, workflow_pos>>
    /\ UNCHANGED <<workflow_dict, inputs, token, result, result_list, fnvars>>

\* An exception leaving the generator's frame: StopIteration becomes
\* RuntimeError (PEP 479), any other passes through.
FromGenerator(e) == IF e = "StopIteration" THEN "RuntimeError" ELSE e

\* get_all_workflow_results: the inner loop's next workflow_name,
\* get_workflow_result, and the yield.
yield_result ==
    /\ pc = "next" /\ ~ListDone
    /\ LET workflow_name == workflow_dict[items_pos].value.list[workflow_pos]
       IN \E wr \in WorkflowResponses(repo, workflow_name), rr \in RunsResponses(repo) :
             LET r == get_workflow_result(repo, workflow_name, wr, rr)
             IN /\ events' = events \o r.calls
                /\ IF r.raised # None
                   THEN /\ Uncaught(FromGenerator(r.raised))
                        /\ UNCHANGED <<result, workflow_pos>>
                   ELSE /\ result' = r.result
                        /\ workflow_pos' = workflow_pos + 1
                        /\ pc' = "yielded"
                        /\ UNCHANGED <<raised, exit_status>>
    /\ UNCHANGED <<workflow_dict, inputs, token, items_pos, repo, result_list, fnvars>>

\* output_color_line keeping the Result without printing its line.
output_color_line_silent ==
    /\ pc = "yielded" /\ runtype = "color"
    /\ result_list' = Append(result_list, result)
    /\ result' = NoResult
    /\ pc' = "next"
    /\ UNCHANGED <<workflow_dict, inputs, token, items_pos, repo, workflow_pos, raised,
                   exit_status, events, fnvars>>

\* output_color's loop body: keep the Result and print its line.
output_color_line ==
    /\ pc = "yielded" /\ runtype = "color"
    /\ result_list' = Append(result_list, result)
    /\ events' = Append(events, output_line(result))
    /\ result' = NoResult
    /\ pc' = "next"
    /\ UNCHANGED <<workflow_dict, inputs, token, items_pos, repo, workflow_pos, raised,
                   exit_status, fnvars>>

\* output_json's list(result_iterator): keep the Result.
output_json_collect ==
    /\ pc = "yielded" /\ runtype = "json"
    /\ result_list' = Append(result_list, result)
    /\ result' = NoResult
    /\ pc' = "next"
    /\ UNCHANGED <<workflow_dict, inputs, token, items_pos, repo, workflow_pos, events,
                   raised, exit_status, fnvars>>

\* main(): retval = output(...) or 0; exit(retval), once output has ended.
Exit(out) ==
    /\ events' = events \o out.printed
    /\ IF out.ret.raised # None
       THEN Uncaught(out.ret.raised)
       ELSE /\ pc' = "exited"
            /\ exit_status' = <<OrZero(out.ret)>>
            /\ UNCHANGED raised

\* The generator ends; output_color reports and returns.
output_color_report ==
    /\ pc = "next" /\ Exhausted /\ runtype = "color"
    /\ Exit(output_color_tail(result_list))
    /\ UNCHANGED <<workflow_dict, inputs, token, items_pos, repo, workflow_pos, result,
                   result_list, fnvars>>

\* The generator ends; output_json prints its document and returns.
output_json_report ==
    /\ pc = "next" /\ Exhausted /\ runtype = "json"
    /\ Exit(output_json_tail(result_list))
    /\ UNCHANGED <<workflow_dict, inputs, token, items_pos, repo, workflow_pos, result,
                   result_list, fnvars>>

Next ==
    \/ main_get_token
    \/ get_repo
    \/ yield_result
    \/ output_color_line
    \/ output_json_collect
    \/ output_color_report
    \/ output_json_report

Spec == Init /\ [][Next]_vars

\* ------------------------------------- the functions applied on their own

\* Workflow.state values of the API, and WorkflowRun.conclusion values (None
\* while a run is in progress).
WorkflowStates == {"active", "disabled_manually", "disabled_inactivity"}
Conclusions == {"success", "failure", "cancelled", None}

\* Workflow paths and page URLs as the API may give them for a repository:
\* the usual pair, and pairs whose page is not the file's blob page.
WorkflowPaths(workflow_name) ==
    {WorkflowPath(workflow_name), workflow_name, ".github/workflows/", "blob"}

WorkflowUrls(full_name, path) ==
    {BlobUrl(full_name, path),
     OtherHostUrl(full_name, path),
     BlobUrl(full_name, ".github/workflows/other.yml"),
     "https://github.com/" \o full_name \o "/blob",
     "https://github.com/" \o full_name \o "/blobs/main/" \o path,
     "https://github.com/" \o full_name \o "/actions/workflows/" \o path}

\* Inputs of get_workflow_result: a repository, a workflow name, and the
\* API's two answers.
GetWorkflowResultInputs ==
    UNION {
      {[repo |-> r, workflow_name |-> n, wr |-> wr, rr |-> rr] :
          wr \in {[ok |-> FALSE, workflow |-> NoWorkflow]} \cup
                 {[ok |-> TRUE, workflow |-> Workflow(st, BlobUrl(r, WorkflowPath(n)),
                                                      WorkflowPath(n))] :
                     st \in WorkflowStates},
          rr \in {[ok |-> FALSE, runs |-> <<>>]} \cup
                 {[ok |-> TRUE, runs |-> rs] : rs \in RunLists(r, Conclusions, MaxRuns)}} :
      r \in RepoNames, n \in WorkflowNames}

\* Results as the orchestrator makes them, for the pages the API may give.
OutputUrlInputs ==
    UNION {
      {get_workflow_result(r, "ci.yml",
                           [ok |-> TRUE, workflow |-> Workflow(st, u, p)],
                           [ok |-> TRUE, runs |-> <<Run(r, 1, c)>>]).result :
          u \in WorkflowUrls(r, p), st \in {"active", "disabled_manually"},
          c \in {"success", "failure"}} :
      r \in RepoNames, p \in WorkflowPaths("ci.yml")}

\* Results of one repository, and the lists of them, for the aggregation.
SomeResults ==
    {get_workflow_result("acme/app", n,
                         [ok |-> TRUE,
                          workflow |-> Workflow(st, BlobUrl("acme/app", WorkflowPath(n)),
                                                WorkflowPath(n))],
                         [ok |-> TRUE, runs |-> <<Run("acme/app", 1, c)>>]).result :
        n \in WorkflowNames, st \in {"active", "disabled_manually"},
        c \in {"success", "failure"}}

ResultLists == UNION {[1..n -> SomeResults] : n \in 0..MaxLen}

\* Inputs of get_token: the CLI value, the dict (its 'token' value may be
\* empty: None or ""), the environment's value.
GetTokenInputs ==
    {[arg_token |-> a, workflow_dict |-> d, environ |-> e] :
        a \in {None, "", "B"},
        d \in {w \in WorkflowDicts({None, "", "A"}) : Len(w) <= 2},
        e \in {None, "", "C"}}

NotCalled == [none |-> TRUE]

InitFn ==
    /\ \/ fn = "get_workflow_result" /\ fn_in \in GetWorkflowResultInputs
       \/ fn = "results_from_result_list" /\ fn_in \in ResultLists
       \/ fn = "output_url" /\ fn_in \in OutputUrlInputs
       \/ fn = "get_token" /\ fn_in \in GetTokenInputs
    /\ fn_out = NotCalled
    /\ pc = "call"
    /\ workflow_dict = <<>>
    /\ arg_token = None /\ environ = None /\ runtype = "color" /\ token = None
    /\ items_pos = 0 /\ repo = None /\ workflow_pos = 0
    /\ result = NoResult /\ result_list = <<>> /\ events = <<>>
    /\ raised = None /\ exit_status = <<>>

run == <<workflow_dict, arg_token, environ, runtype, token, items_pos, repo,
         workflow_pos, result, result_list, events, raised, exit_status>>

call_get_workflow_result ==
    /\ pc = "call" /\ fn = "get_workflow_result"
    /\ fn_out' = get_workflow_result(fn_in.repo, fn_in.workflow_name, fn_in.wr, fn_in.rr)
    /\ pc' = "return"
    /\ UNCHANGED <<run, fn, fn_in>>

call_results_from_result_list ==
    /\ pc = "call" /\ fn = "results_from_result_list"
    /\ fn_out' = results_from_result_list(fn_in)
    /\ pc' = "return"
    /\ UNCHANGED <<run, fn, fn_in>>

call_output_url ==
    /\ pc = "call" /\ fn = "output_url"
    /\ fn_out' = output_url(fn_in)
    /\ pc' = "return"
    /\ UNCHANGED <<run, fn, fn_in>>

call_get_token ==
    /\ pc = "call" /\ fn = "get_token"
    /\ fn_out' = get_token(fn_in.arg_token, fn_in.workflow_dict, fn_in.environ)
    /\ pc' = "return"
    /\ UNCHANGED <<run, fn, fn_in>>

NextFn ==
    \/ call_get_workflow_result
    \/ call_results_from_result_list
    \/ call_output_url
    \/ call_get_token

SpecFn == InitFn /\ [][NextFn]_vars

\* ------------------------------- properties of the functions on their own

Returns(f) == pc = "return" /\ fn = f

\* C2: get_workflow_result gives INACTIVATED without a run, and without asking
\* for the run list, when the workflow's state is not "active"; for an active
\* workflow it gives OK with the newest scheduled run when that run's
\* conclusion is "success" and FAILED with that run for any other conclusion.
\* So a Result has a last_scheduled_run iff its status is not INACTIVATED.
C2_Classification ==
    Returns("get_workflow_result") =>
        LET wr == fn_in.wr
            rr == fn_in.rr
            out == fn_out
        IN /\ (wr.ok /\ wr.workflow.state # "active") =>
                  /\ out.raised = None
                  /\ out.result.status = INACTIVATED
                  /\ out.result.last_scheduled_run = NoRun
                  /\ \A i \in 1..Len(out.calls) : out.calls[i].kind # "get_runs"
           /\ (wr.ok /\ wr.workflow.state = "active" /\ rr.ok /\ rr.runs # <<>>) =>
                  /\ out.raised = None
                  /\ out.result.last_scheduled_run = rr.runs[1]
                  /\ rr.runs[1].conclusion = "success" => out.result.status = OK
                  /\ rr.runs[1].conclusion # "success" => out.result.status = FAILED
           /\ out.raised = None =>
                  /\ out.result.repo = fn_in.repo
                  /\ out.result.workflow_name = fn_in.workflow_name
                  /\ out.result.workflow = wr.workflow
                  /\ out.result.last_scheduled_run # NoRun
                         <=> out.result.status # INACTIVATED

\* An active workflow whose newest run was cancelled and whose older run
\* succeeded has been classified FAILED.
C2_Witness ==
    /\ Returns("get_workflow_result")
    /\ fn_in.wr.ok /\ fn_in.wr.workflow.state = "active"
    /\ fn_in.rr.ok /\ Len(fn_in.rr.runs) = 2
    /\ fn_in.rr.runs[1].conclusion = "cancelled"
    /\ fn_in.rr.runs[2].conclusion = "success"
    /\ fn_out.result.status = FAILED

\* The Results of a list that have a status, in the list's order.
OfStatus(rs, status) == SelectSeq(rs, LAMBDA r : r.status = status)

\* C3: results_from_result_list gives the three keys OK, INACTIVATED, FAILED
\* whatever the input; each group holds exactly the input's Results of that
\* status in the input's order; the group lengths sum to the input's length.
C3_StablePartition ==
    Returns("results_from_result_list") =>
        /\ DOMAIN fn_out = {OK, INACTIVATED, FAILED}
        /\ \A status \in {OK, INACTIVATED, FAILED} :
               fn_out[status] = OfStatus(fn_in, status)
        /\ Len(fn_out[OK]) + Len(fn_out[INACTIVATED]) + Len(fn_out[FAILED]) = Len(fn_in)

\* A list of three Results with two different FAILED ones around an OK one
\* has been grouped, its INACTIVATED group empty.
C3_Witness ==
    /\ Returns("results_from_result_list")
    /\ Len(fn_in) = 3
    /\ fn_in[1].status = FAILED /\ fn_in[2].status = OK /\ fn_in[3].status = FAILED
    /\ fn_in[1] # fn_in[3]
    /\ fn_out[INACTIVATED] = <<>>

\* The dict's token value, None without the key.
ConfigToken(d) == IF HasKey(d, "token") THEN Lookup(d, "token").str ELSE None

\* C4: get_token returns the CLI value when one is given; otherwise the
\* dict's value when it has one; otherwise the environment's value when it
\* has one; and raises the missing-token error when there is none.
C4_TokenPrecedence ==
    Returns("get_token") =>
        LET a == ConfigToken(fn_in.workflow_dict)
            b == fn_in.arg_token
            c == fn_in.environ
        IN /\ Truthy(b) => (fn_out.raised = None /\ fn_out.token = b)
           /\ (~Truthy(b) /\ Truthy(a)) => (fn_out.raised = None /\ fn_out.token = a)
           /\ (~Truthy(b) /\ ~Truthy(a) /\ Truthy(c)) =>
                  (fn_out.raised = None /\ fn_out.token = c)
           /\ (~Truthy(b) /\ ~Truthy(a) /\ ~Truthy(c)) => fn_out.raised = "ValueError"

\* With the dict's value A and the environment's C and no CLI value, A has
\* been returned.
C4_Witness ==
    /\ Returns("get_token")
    /\ ConfigToken(fn_in.workflow_dict) = "A"
    /\ fn_in.arg_token = None
    /\ fn_in.environ = "C"
    /\ fn_out.token = "A"

Contains(s, sub) ==
    \E i \in 1..(Len(s) + 1) :
        i + Len(sub) <= Len(s) + 1 /\ SubSeq(s, i, i + Len(sub) - 1) = sub

\* f is the final '/'-separated segment of path.
IsFinalSegment(f, path) ==
    /\ EndsWith(path, f)
    /\ ~Contains(f, "/")
    /\ Len(f) < Len(path) => SubSeq(path, Len(path) - Len(f), Len(path) - Len(f)) = "/"

Suffixes(s) == {SubSeq(s, i, Len(s)) : i \in 1..(Len(s) + 1)}

\* C5: output_url of a Result of the orchestrator raises nothing.  It is the
\* run's html_url when the status is not INACTIVATED.  When it is, and the
\* workflow's html_url starts with "https://github.com/{repo}/blob" and ends
\* with the workflow's path, it is
\* "https://github.com/{repo}/actions/workflows/{filename}", filename the
\* final segment of the path; otherwise it is a text that is no such URL and
\* contains the html_url.
C5_OutputUrl ==
    Returns("output_url") =>
        LET r == fn_in
            start == "https://github.com/" \o r.repo \o "/blob"
            actions == "https://github.com/" \o r.repo \o "/actions/workflows/"
        IN /\ fn_out.raised = None
           /\ r.status # INACTIVATED => fn_out.value = r.last_scheduled_run.html_url
           /\ (/\ r.status = INACTIVATED
               /\ StartsWith(r.workflow.html_url, start)
               /\ EndsWith(r.workflow.html_url, r.workflow.path)) =>
                  \E f \in Suffixes(r.workflow.path) :
                      IsFinalSegment(f, r.workflow.path) /\ fn_out.value = actions \o f
           /\ (/\ r.status = INACTIVATED
               /\ ~(/\ StartsWith(r.workflow.html_url, start)
                    /\ EndsWith(r.workflow.html_url, r.workflow.path))) =>
                  /\ ~StartsWith(fn_out.value, "https://github.com/")
                  /\ Contains(fn_out.value, r.workflow.html_url)

\* The link of an inactivated workflow has been made from its blob page.
C5_Witness ==
    /\ Returns("output_url")
    /\ fn_in.status = INACTIVATED
    /\ fn_in.workflow.html_url
           = "https://github.com/acme/app/blob/main/.github/workflows/ci.yml"
    /\ fn_in.workflow.path = ".github/workflows/ci.yml"
    /\ fn_out.value = "https://github.com/acme/app/actions/workflows/ci.yml"

\* ------------------------------------------------- properties of a run

CallKinds == {"get_repo", "get_workflow", "get_runs"}
ReportKinds == {"summary", "banner", "inactive_link", "failed_link"}

IsCall(e) == e.kind \in CallKinds
\* A call that was answered with an error, or with no run at all.
FetchFailed(e) == IsCall(e) /\ e.answer # "ok"

\* How many of the first n events are of the kinds.
CountOf(kinds, n) == Cardinality({j \in 1..n : events[j].kind \in kinds})

Ended == pc \in {"exited", "crashed"}
\* The run has its token and no call of it has failed.
AllFetchesOk == token # None /\ \A i \in 1..Len(events) : ~FetchFailed(events[i])

NotOk(r) == r.status \in {FAILED, INACTIVATED}

\* C1: given a finite stream of Results, output_color completes and the exit
\* code is 1 if a Result is FAILED or INACTIVATED, and 0 otherwise.
C1_ColorExitCode ==
    (runtype = "color" /\ Ended /\ AllFetchesOk) =>
        /\ pc = "exited"
        /\ exit_status = <<IF \E i \in 1..Len(result_list) : NotOk(result_list[i])
                            THEN 1 ELSE 0>>

\* C6: in --json mode, when every fetch succeeds, the run prints exactly one
\* document (and nothing else) and exits with code 0, whatever the statuses.
C6_JsonExitsZero ==
    (runtype = "json" /\ Ended /\ AllFetchesOk) =>
        /\ pc = "exited"
        /\ exit_status = <<0>>
        /\ CountOf({"json"}, Len(events)) = 1
        /\ \A i \in 1..Len(events) : ~IsCall(events[i]) => events[i].kind = "json"

\* A --json run over a FAILED and an INACTIVATED workflow has exited.
C6_Witness ==
    /\ runtype = "json" /\ pc = "exited"
    /\ \E i \in 1..Len(result_list) : result_list[i].status = FAILED
    /\ \E i \in 1..Len(result_list) : result_list[i].status = INACTIVATED

\* The get_repo and get_workflow calls a dict asks for, in order.
RECURSIVE CallPlan(_)
CallPlan(d) ==
    IF d = <<>> THEN <<>>
    ELSE <<[kind |-> "get_repo", repo |-> Head(d).key, workflow_name |-> None]>>
         \o [j \in 1..Len(Head(d).value.list) |->
                [kind |-> "get_workflow", repo |-> Head(d).key,
                 workflow_name |-> Head(d).value.list[j]]]
         \o CallPlan(Tail(d))

\* The get_repo and get_workflow calls made, in order, without their answers.
CallsMade ==
    LET made == SelectSeq(events, LAMBDA e : e.kind \in {"get_repo", "get_workflow"})
    IN [i \in 1..Len(made) |->
           [kind |-> made[i].kind, repo |-> made[i].repo,
            workflow_name |-> made[i].workflow_name]]

IsPrefix(p, q) == Len(p) <= Len(q) /\ SubSeq(q, 1, Len(p)) = p

\* The Results yielded so far.
Yielded == IF result = NoResult THEN result_list ELSE Append(result_list, result)

\* C7: once the token is resolved the dict has no 'token' key, with or
\* without a CLI token, and 'token' is never fetched as a repository; the
\* calls are made in configured order, each get_runs right after the
\* get_workflow of its workflow; the Results yielded are those of the
\* configured pairs in configured order, one for each pair when the
\* generator is exhausted.
C7_ConfiguredOrder ==
    pc # "get_token" =>
        /\ ~HasKey(workflow_dict, "token")
        /\ \A i \in 1..Len(events) : IsCall(events[i]) => events[i].repo # "token"
        /\ IsPrefix(CallsMade, CallPlan(workflow_dict))
        /\ \A i \in 1..Len(events) :
               events[i].kind = "get_runs" =>
                   /\ i > 1
                   /\ events[i - 1].kind = "get_workflow"
                   /\ events[i - 1].repo = events[i].repo
                   /\ events[i - 1].workflow_name = events[i].workflow_name
        /\ Len(Yielded) <= Len(PairsOf(workflow_dict))
        /\ \A i \in 1..Len(Yielded) :
               /\ Yielded[i].repo = PairsOf(workflow_dict)[i].repo
               /\ Yielded[i].workflow_name = PairsOf(workflow_dict)[i].workflow_name
        /\ (Ended /\ AllFetchesOk) => Len(result_list) = Len(PairsOf(workflow_dict))

\* A run whose token came from the dict, overridden by the CLI or not, has
\* ended after three Results from two repositories.
C7_Witness ==
    /\ Ended /\ AllFetchesOk
    /\ token \in {"A", "B"}
    /\ Len(workflow_dict) = 2
    /\ Len(result_list) = 3
    /\ result_list[1].repo # result_list[3].repo

NoCredential ==
    /\ ~Truthy(arg_token)
    /\ ~Truthy(ConfigToken(workflow_dict))
    /\ ~Truthy(environ)

\* C8: with no token in the dict, the CLI argument or the environment, the
\* run ends with the missing-token error as its first step: no call is made,
\* nothing is printed, and nothing follows.
C8_MissingCredential ==
    /\ [][(pc = "get_token" /\ NoCredential) =>
              /\ pc' = "crashed" /\ raised' = "ValueError" /\ exit_status' = <<1>>
              /\ events' = <<>> /\ result_list' = <<>>]_vars
    /\ [][raised # "ValueError"]_vars

\* A run over a dict with a repository has ended with the missing-token error.
C8_Witness ==
    /\ pc = "crashed" /\ raised = "ValueError"
    /\ PairsOf(workflow_dict) # <<>>

\* C9: in textual mode every call is made with the lines of all earlier
\* workflows printed (line k is workflow k's), and the summary and the link
\* sections come after every workflow's fetch and line; in --json mode
\* nothing is printed before every workflow has been fetched.
C9_Interleaving ==
    pc # "get_token" =>
        LET pairs == PairsOf(workflow_dict)
        IN \A i \in 1..Len(events) :
              LET fetched == CountOf({"get_workflow"}, i - 1)
                  lines == CountOf({"line"}, i - 1)
                  e == events[i]
              IN /\ (runtype = "color" /\ e.kind \in {"get_repo", "get_workflow"}) =>
                        lines = fetched
                 /\ (runtype = "color" /\ e.kind = "get_runs") => lines + 1 = fetched
                 /\ e.kind = "line" =>
                        /\ runtype = "color"
                        /\ fetched = lines + 1
                        /\ e.repo = pairs[fetched].repo
                        /\ e.workflow_name = pairs[fetched].workflow_name
                 /\ e.kind \in ReportKinds =>
                        /\ runtype = "color"
                        /\ fetched = Len(pairs) /\ lines = Len(pairs)
                        /\ \A j \in i..Len(events) : events[j].kind \in ReportKinds
                 /\ e.kind = "json" =>
                        /\ runtype = "json"
                        /\ fetched = Len(pairs)
                        /\ CountOf(CallKinds, i - 1) = i - 1
                        /\ i = Len(events)

\* A textual run over two repositories has printed three lines, the summary
\* and a link section.
C9_Witness ==
    /\ runtype = "color" /\ Ended
    /\ Len(workflow_dict) = 2
    /\ CountOf({"line"}, Len(events)) = 3
    /\ CountOf({"summary"}, Len(events)) = 1
    /\ CountOf({"banner"}, Len(events)) >= 1

\* C10: a call answered with an error, or a run list without a run, ends
\* the run: it is the last event, no Result is made for its workflow, no
\* summary and no document is printed, and the exit status is not 0.
C10_FetchFailureFatal ==
    \A i \in 1..Len(events) :
        FetchFailed(events[i]) =>
            /\ i = Len(events)
            /\ pc = "crashed"
            /\ raised \in {"GithubException", "RuntimeError"}
            /\ exit_status # <<0>> /\ exit_status # <<>>
            /\ result = NoResult
            /\ Len(result_list) = CountOf({"get_workflow"}, i)
                                  - (IF events[i].kind = "get_repo" THEN 0 ELSE 1)
            /\ runtype = "color" => CountOf({"line"}, i) = Len(result_list)
            /\ CountOf({"summary", "json"}, Len(events)) = 0

\* The second workflow of a textual run is active and has no scheduled run:
\* the run has ended after the first workflow's line.
C10_Witness ==
    /\ runtype = "color" /\ pc = "crashed"
    /\ Len(events) > 0
    /\ events[Len(events)].kind = "get_runs"
    /\ events[Len(events)].answer = "empty"
    /\ CountOf({"get_workflow"}, Len(events)) = 2
    /\ CountOf({"line"}, Len(events)) = 1
====
